---------------------------- MODULE Spec2Model ----------------------------
(***************************************************************************)
(* Model of gifzittofetch.py: the ANSI-aware text engine (visible_width,   *)
(* truncate_ansi, pad_ansi), the status panel (gather_all_modules,         *)
(* build_spec_lines), the frame store (gen_frames_from_gif,                *)
(* load_frames_from_dir), main and render_loop.                            *)
(*                                                                         *)
(* A Python str is modelled as a sequence of Unicode code points.          *)
(***************************************************************************)
EXTENDS Integers, Sequences, FiniteSets, TLC

VARIABLES
    have_wcwidth,   \* TRUE iff "from wcwidth import wcswidth" succeeded (l.32-35)
    align,          \* "left" or "center" (pad_ansi's align, --align)
    s,              \* text engine: the input string
    target,         \* text engine: the target width
    result,         \* text engine: the value returned by the last call
    result2,        \* text engine: truncate_ansi applied to result again
    op,             \* text engine: which call produced result
    pc,             \* render_loop: where control is
    frames,         \* render_loop: the loaded frames (a list of lists of rows)
    box_w,          \* render_loop: --width
    box_h,          \* render_loop: --height
    fps,            \* render_loop: --fps
    cols,           \* the terminal's live column count
    term_w,         \* render_loop: the column count read at l.458
    gi,             \* gather_all_modules: index of the next entry of MODULE_FUNCS
    gather_out,     \* gather_all_modules: its list out, built so far
    mods,           \* render_loop: the last list gather_all_modules returned
    spec_lines,     \* render_loop: the panel lines
    idx,            \* render_loop: the frame index
    padded_left,    \* render_loop: the box-fitted rows of the current frame
    row,            \* render_loop: i of "for i in range(max_lines)"
    printed,        \* the lines printed in the current tick, with how each was fitted
    drawn_cols,     \* history: the live column count when the last line was printed
    calls,          \* history: how many times each provider was invoked
    raised,         \* history: the fields whose provider raised in this cycle
    raised_before,  \* history: some provider raised in an earlier cycle
    ticks,          \* history: completed ticks
    now,            \* wall-clock time, in milliseconds
    refreshed_at,   \* history: when the previous refresh (gather) completed
    anim_dir,       \* the animation directory: whether it exists, and its entries
    gif,            \* gen_frames_from_gif: the rows of each frame of the input GIF
    gen_i,          \* the generator: i of "for i, frame in enumerate(...)"
    tool            \* the generator run: "gifzittofetch" (--gen-frames),
                    \* "gifzitto-frames" or "gif2ascii_clean"; "none" otherwise

cfgVars == <<have_wcwidth, align>>
textVars == <<s, target, result, result2, op>>
loopVars == <<pc, frames, box_w, box_h, fps, cols, term_w, gi, gather_out, mods,
              spec_lines, idx, padded_left, row, printed, drawn_cols, calls,
              raised, raised_before, ticks, now, refreshed_at>>
dirVars == <<anim_dir, gif, gen_i, tool>>
vars == <<cfgVars, textVars, dirVars, loopVars>>

(***************************************************************************)
(* Bounds of the model.                                                    *)
(***************************************************************************)
MaxFragments == 4
MaxTarget == 4
NumFields == 3
MaxTicks == 3
MaxGif == 11
MaxGifRows == 2
BoxW == 2
BoxH == 2

(***************************************************************************)
(* Characters.                                                             *)
(***************************************************************************)
ESC == 27
LBRACKET == 91
LETTER_m == 109
SPACE == 32

\* "\033[0m", the reset run appended by truncate_ansi (l.102)
RESET == <<27, 91, 48, 109>>

\* the character class [0-9;] of ANSI_RE
IsParam(c) == (c >= 48 /\ c <= 57) \/ c = 59

RECURSIVE SkipParams(_, _)
\* the greedy [0-9;]* of ANSI_RE: first index >= j that is not a parameter
SkipParams(str, j) ==
    IF j <= Len(str) /\ IsParam(str[j]) THEN SkipParams(str, j + 1) ELSE j

\* ANSI_RE.match(str, i): the index just past the match that starts at i,
\* or 0 when the pattern \x1b\[[0-9;]*m does not match at i
ANSI_RE_match(str, i) ==
    IF i + 1 <= Len(str) /\ str[i] = ESC /\ str[i + 1] = LBRACKET
    THEN LET j == SkipParams(str, i + 2)
         IN  IF j <= Len(str) /\ str[j] = LETTER_m THEN j + 1 ELSE 0
    ELSE 0

RECURSIVE AnsiSubFrom(_, _)
AnsiSubFrom(str, i) ==
    IF i > Len(str) THEN <<>>
    ELSE LET e == ANSI_RE_match(str, i)
         IN  IF e # 0 THEN AnsiSubFrom(str, e)
             ELSE <<str[i]>> \o AnsiSubFrom(str, i + 1)

\* ANSI_RE.sub('', str): every leftmost non-overlapping match removed
ANSI_RE_sub(str) == AnsiSubFrom(str, 1)

(***************************************************************************)
(* Glyph widths.                                                           *)
(***************************************************************************)
\* The wcwidth library (version 0.7.0, Unicode 17.0.0) that l.32-35 import
\* wcswidth from; its tables are copied range by range.
\* ZERO_WIDTH of the latest Unicode version: the zero-width code points, as (first, last) ranges
ZERO_WIDTH == <<
    <<0, 0>>, <<768, 879>>, <<1155, 1161>>, <<1425, 1469>>, <<1471, 1471>>,
    <<1473, 1474>>, <<1476, 1477>>, <<1479, 1479>>, <<1552, 1562>>,
    <<1564, 1564>>, <<1611, 1631>>, <<1648, 1648>>, <<1750, 1756>>,
    <<1759, 1764>>, <<1767, 1768>>, <<1770, 1773>>, <<1809, 1809>>,
    <<1840, 1866>>, <<1958, 1968>>, <<2027, 2035>>, <<2045, 2045>>,
    <<2070, 2073>>, <<2075, 2083>>, <<2085, 2087>>, <<2089, 2093>>,
    <<2137, 2139>>, <<2199, 2207>>, <<2250, 2273>>, <<2275, 2307>>,
    <<2362, 2364>>, <<2366, 2383>>, <<2385, 2391>>, <<2402, 2403>>,
    <<2433, 2435>>, <<2492, 2492>>, <<2494, 2500>>, <<2503, 2504>>,
    <<2507, 2509>>, <<2519, 2519>>, <<2530, 2531>>, <<2558, 2558>>,
    <<2561, 2563>>, <<2620, 2620>>, <<2622, 2626>>, <<2631, 2632>>,
    <<2635, 2637>>, <<2641, 2641>>, <<2672, 2673>>, <<2677, 2677>>,
    <<2689, 2691>>, <<2748, 2748>>, <<2750, 2757>>, <<2759, 2761>>,
    <<2763, 2765>>, <<2786, 2787>>, <<2810, 2815>>, <<2817, 2819>>,
    <<2876, 2876>>, <<2878, 2884>>, <<2887, 2888>>, <<2891, 2893>>,
    <<2901, 2903>>, <<2914, 2915>>, <<2946, 2946>>, <<3006, 3010>>,
    <<3014, 3016>>, <<3018, 3021>>, <<3031, 3031>>, <<3072, 3076>>,
    <<3132, 3132>>, <<3134, 3140>>, <<3142, 3144>>, <<3146, 3149>>,
    <<3157, 3158>>, <<3170, 3171>>, <<3201, 3203>>, <<3260, 3260>>,
    <<3262, 3268>>, <<3270, 3272>>, <<3274, 3277>>, <<3285, 3286>>,
    <<3298, 3299>>, <<3315, 3315>>, <<3328, 3331>>, <<3387, 3388>>,
    <<3390, 3396>>, <<3398, 3400>>, <<3402, 3405>>, <<3415, 3415>>,
    <<3426, 3427>>, <<3457, 3459>>, <<3530, 3530>>, <<3535, 3540>>,
    <<3542, 3542>>, <<3544, 3551>>, <<3570, 3571>>, <<3633, 3633>>,
    <<3636, 3642>>, <<3655, 3662>>, <<3761, 3761>>, <<3764, 3772>>,
    <<3784, 3790>>, <<3864, 3865>>, <<3893, 3893>>, <<3895, 3895>>,
    <<3897, 3897>>, <<3902, 3903>>, <<3953, 3972>>, <<3974, 3975>>,
    <<3981, 3991>>, <<3993, 4028>>, <<4038, 4038>>, <<4139, 4158>>,
    <<4182, 4185>>, <<4190, 4192>>, <<4194, 4196>>, <<4199, 4205>>,
    <<4209, 4212>>, <<4226, 4237>>, <<4239, 4239>>, <<4250, 4253>>,
    <<4448, 4607>>, <<4957, 4959>>, <<5906, 5909>>, <<5938, 5940>>,
    <<5970, 5971>>, <<6002, 6003>>, <<6068, 6099>>, <<6109, 6109>>,
    <<6155, 6159>>, <<6277, 6278>>, <<6313, 6313>>, <<6432, 6443>>,
    <<6448, 6459>>, <<6679, 6683>>, <<6741, 6750>>, <<6752, 6780>>,
    <<6783, 6783>>, <<6832, 6877>>, <<6880, 6891>>, <<6912, 6916>>,
    <<6964, 6980>>, <<7019, 7027>>, <<7040, 7042>>, <<7073, 7085>>,
    <<7142, 7155>>, <<7204, 7223>>, <<7376, 7378>>, <<7380, 7400>>,
    <<7405, 7405>>, <<7412, 7412>>, <<7415, 7417>>, <<7616, 7679>>,
    <<8203, 8207>>, <<8232, 8238>>, <<8288, 8303>>, <<8400, 8432>>,
    <<11503, 11505>>, <<11647, 11647>>, <<11744, 11775>>, <<12330, 12335>>,
    <<12441, 12442>>, <<12644, 12644>>, <<42607, 42610>>, <<42612, 42621>>,
    <<42654, 42655>>, <<42736, 42737>>, <<43010, 43010>>, <<43014, 43014>>,
    <<43019, 43019>>, <<43043, 43047>>, <<43052, 43052>>, <<43136, 43137>>,
    <<43188, 43205>>, <<43232, 43249>>, <<43263, 43263>>, <<43302, 43309>>,
    <<43335, 43347>>, <<43392, 43395>>, <<43443, 43456>>, <<43493, 43493>>,
    <<43561, 43574>>, <<43587, 43587>>, <<43596, 43597>>, <<43643, 43645>>,
    <<43696, 43696>>, <<43698, 43700>>, <<43703, 43704>>, <<43710, 43711>>,
    <<43713, 43713>>, <<43755, 43759>>, <<43765, 43766>>, <<44003, 44010>>,
    <<44012, 44013>>, <<55216, 55295>>, <<64286, 64286>>, <<65024, 65039>>,
    <<65056, 65071>>, <<65279, 65279>>, <<65440, 65440>>, <<65520, 65531>>,
    <<66045, 66045>>, <<66272, 66272>>, <<66422, 66426>>, <<68097, 68099>>,
    <<68101, 68102>>, <<68108, 68111>>, <<68152, 68154>>, <<68159, 68159>>,
    <<68325, 68326>>, <<68900, 68903>>, <<68969, 68973>>, <<69291, 69292>>,
    <<69370, 69375>>, <<69446, 69456>>, <<69506, 69509>>, <<69632, 69634>>,
    <<69688, 69702>>, <<69744, 69744>>, <<69747, 69748>>, <<69759, 69762>>,
    <<69808, 69818>>, <<69826, 69826>>, <<69888, 69890>>, <<69927, 69940>>,
    <<69957, 69958>>, <<70003, 70003>>, <<70016, 70018>>, <<70067, 70080>>,
    <<70089, 70092>>, <<70094, 70095>>, <<70188, 70199>>, <<70206, 70206>>,
    <<70209, 70209>>, <<70367, 70378>>, <<70400, 70403>>, <<70459, 70460>>,
    <<70462, 70468>>, <<70471, 70472>>, <<70475, 70477>>, <<70487, 70487>>,
    <<70498, 70499>>, <<70502, 70508>>, <<70512, 70516>>, <<70584, 70592>>,
    <<70594, 70594>>, <<70597, 70597>>, <<70599, 70602>>, <<70604, 70608>>,
    <<70610, 70610>>, <<70625, 70626>>, <<70709, 70726>>, <<70750, 70750>>,
    <<70832, 70851>>, <<71087, 71093>>, <<71096, 71104>>, <<71132, 71133>>,
    <<71216, 71232>>, <<71339, 71351>>, <<71453, 71467>>, <<71724, 71738>>,
    <<71984, 71989>>, <<71991, 71992>>, <<71995, 71998>>, <<72000, 72000>>,
    <<72002, 72003>>, <<72145, 72151>>, <<72154, 72160>>, <<72164, 72164>>,
    <<72193, 72202>>, <<72243, 72249>>, <<72251, 72254>>, <<72263, 72263>>,
    <<72273, 72283>>, <<72330, 72345>>, <<72544, 72551>>, <<72751, 72758>>,
    <<72760, 72767>>, <<72850, 72871>>, <<72873, 72886>>, <<73009, 73014>>,
    <<73018, 73018>>, <<73020, 73021>>, <<73023, 73029>>, <<73031, 73031>>,
    <<73098, 73102>>, <<73104, 73105>>, <<73107, 73111>>, <<73459, 73462>>,
    <<73472, 73473>>, <<73475, 73475>>, <<73524, 73530>>, <<73534, 73538>>,
    <<73562, 73562>>, <<78896, 78912>>, <<78919, 78933>>, <<90398, 90415>>,
    <<92912, 92916>>, <<92976, 92982>>, <<94031, 94031>>, <<94033, 94087>>,
    <<94095, 94098>>, <<94180, 94180>>, <<94192, 94193>>, <<113821, 113822>>,
    <<113824, 113827>>, <<118528, 118573>>, <<118576, 118598>>,
    <<119141, 119145>>, <<119149, 119170>>, <<119173, 119179>>,
    <<119210, 119213>>, <<119362, 119364>>, <<121344, 121398>>,
    <<121403, 121452>>, <<121461, 121461>>, <<121476, 121476>>,
    <<121499, 121503>>, <<121505, 121519>>, <<122880, 122886>>,
    <<122888, 122904>>, <<122907, 122913>>, <<122915, 122916>>,
    <<122918, 122922>>, <<123023, 123023>>, <<123184, 123190>>,
    <<123566, 123566>>, <<123628, 123631>>, <<124140, 124143>>,
    <<124398, 124399>>, <<124643, 124643>>, <<124646, 124646>>,
    <<124654, 124655>>, <<124661, 124661>>, <<125136, 125142>>,
    <<125252, 125258>>, <<917504, 921599>> >>

\* WIDE_EASTASIAN of the latest Unicode version: East Asian Wide and Fullwidth, as (first, last) ranges
WIDE_EASTASIAN == <<
    <<4352, 4447>>, <<8986, 8987>>, <<9001, 9002>>, <<9193, 9196>>,
    <<9200, 9200>>, <<9203, 9203>>, <<9725, 9726>>, <<9748, 9749>>,
    <<9776, 9783>>, <<9800, 9811>>, <<9855, 9855>>, <<9866, 9871>>,
    <<9875, 9875>>, <<9889, 9889>>, <<9898, 9899>>, <<9917, 9918>>,
    <<9924, 9925>>, <<9934, 9934>>, <<9940, 9940>>, <<9962, 9962>>,
    <<9970, 9971>>, <<9973, 9973>>, <<9978, 9978>>, <<9981, 9981>>,
    <<9989, 9989>>, <<9994, 9995>>, <<10024, 10024>>, <<10060, 10060>>,
    <<10062, 10062>>, <<10067, 10069>>, <<10071, 10071>>, <<10133, 10135>>,
    <<10160, 10160>>, <<10175, 10175>>, <<11035, 11036>>, <<11088, 11088>>,
    <<11093, 11093>>, <<11904, 11929>>, <<11931, 12019>>, <<12032, 12245>>,
    <<12272, 12329>>, <<12336, 12350>>, <<12353, 12438>>, <<12443, 12543>>,
    <<12549, 12591>>, <<12593, 12643>>, <<12645, 12686>>, <<12688, 12773>>,
    <<12783, 12830>>, <<12832, 12871>>, <<12880, 42124>>, <<42128, 42182>>,
    <<43360, 43388>>, <<44032, 55203>>, <<63744, 64255>>, <<65040, 65049>>,
    <<65072, 65106>>, <<65108, 65126>>, <<65128, 65131>>, <<65281, 65376>>,
    <<65504, 65510>>, <<94176, 94179>>, <<94194, 94198>>, <<94208, 101589>>,
    <<101631, 101662>>, <<101760, 101874>>, <<110576, 110579>>,
    <<110581, 110587>>, <<110589, 110590>>, <<110592, 110882>>,
    <<110898, 110898>>, <<110928, 110930>>, <<110933, 110933>>,
    <<110948, 110951>>, <<110960, 111355>>, <<119552, 119638>>,
    <<119648, 119670>>, <<126980, 126980>>, <<127183, 127183>>,
    <<127374, 127374>>, <<127377, 127386>>, <<127462, 127490>>,
    <<127504, 127547>>, <<127552, 127560>>, <<127568, 127569>>,
    <<127584, 127589>>, <<127744, 127776>>, <<127789, 127797>>,
    <<127799, 127868>>, <<127870, 127891>>, <<127904, 127946>>,
    <<127951, 127955>>, <<127968, 127984>>, <<127988, 127988>>,
    <<127992, 128062>>, <<128064, 128064>>, <<128066, 128252>>,
    <<128255, 128317>>, <<128331, 128334>>, <<128336, 128359>>,
    <<128378, 128378>>, <<128405, 128406>>, <<128420, 128420>>,
    <<128507, 128591>>, <<128640, 128709>>, <<128716, 128716>>,
    <<128720, 128722>>, <<128725, 128728>>, <<128732, 128735>>,
    <<128747, 128748>>, <<128756, 128764>>, <<128992, 129003>>,
    <<129008, 129008>>, <<129292, 129338>>, <<129340, 129349>>,
    <<129351, 129535>>, <<129648, 129660>>, <<129664, 129674>>,
    <<129678, 129734>>, <<129736, 129736>>, <<129741, 129756>>,
    <<129759, 129770>>, <<129775, 129784>>, <<131072, 196605>>,
    <<196608, 262141>> >>

\* CATEGORY_MC: spacing combining marks, as (first, last) ranges
CATEGORY_MC == <<
    <<2307, 2307>>, <<2363, 2363>>, <<2366, 2368>>, <<2377, 2380>>,
    <<2382, 2383>>, <<2434, 2435>>, <<2494, 2496>>, <<2503, 2504>>,
    <<2507, 2508>>, <<2519, 2519>>, <<2563, 2563>>, <<2622, 2624>>,
    <<2691, 2691>>, <<2750, 2752>>, <<2761, 2761>>, <<2763, 2764>>,
    <<2818, 2819>>, <<2878, 2878>>, <<2880, 2880>>, <<2887, 2888>>,
    <<2891, 2892>>, <<2903, 2903>>, <<3006, 3007>>, <<3009, 3010>>,
    <<3014, 3016>>, <<3018, 3020>>, <<3031, 3031>>, <<3073, 3075>>,
    <<3137, 3140>>, <<3202, 3203>>, <<3262, 3262>>, <<3264, 3268>>,
    <<3271, 3272>>, <<3274, 3275>>, <<3285, 3286>>, <<3315, 3315>>,
    <<3330, 3331>>, <<3390, 3392>>, <<3398, 3400>>, <<3402, 3404>>,
    <<3415, 3415>>, <<3458, 3459>>, <<3535, 3537>>, <<3544, 3551>>,
    <<3570, 3571>>, <<3902, 3903>>, <<3967, 3967>>, <<4139, 4140>>,
    <<4145, 4145>>, <<4152, 4152>>, <<4155, 4156>>, <<4182, 4183>>,
    <<4194, 4196>>, <<4199, 4205>>, <<4227, 4228>>, <<4231, 4236>>,
    <<4239, 4239>>, <<4250, 4252>>, <<5909, 5909>>, <<5940, 5940>>,
    <<6070, 6070>>, <<6078, 6085>>, <<6087, 6088>>, <<6435, 6438>>,
    <<6441, 6443>>, <<6448, 6449>>, <<6451, 6456>>, <<6681, 6682>>,
    <<6741, 6741>>, <<6743, 6743>>, <<6753, 6753>>, <<6755, 6756>>,
    <<6765, 6770>>, <<6916, 6916>>, <<6965, 6965>>, <<6971, 6971>>,
    <<6973, 6977>>, <<6979, 6980>>, <<7042, 7042>>, <<7073, 7073>>,
    <<7078, 7079>>, <<7082, 7082>>, <<7143, 7143>>, <<7146, 7148>>,
    <<7150, 7150>>, <<7154, 7155>>, <<7204, 7211>>, <<7220, 7221>>,
    <<7393, 7393>>, <<7415, 7415>>, <<12334, 12335>>, <<43043, 43044>>,
    <<43047, 43047>>, <<43136, 43137>>, <<43188, 43203>>, <<43346, 43347>>,
    <<43395, 43395>>, <<43444, 43445>>, <<43450, 43451>>, <<43454, 43456>>,
    <<43567, 43568>>, <<43571, 43572>>, <<43597, 43597>>, <<43643, 43643>>,
    <<43645, 43645>>, <<43755, 43755>>, <<43758, 43759>>, <<43765, 43765>>,
    <<44003, 44004>>, <<44006, 44007>>, <<44009, 44010>>, <<44012, 44012>>,
    <<69632, 69632>>, <<69634, 69634>>, <<69762, 69762>>, <<69808, 69810>>,
    <<69815, 69816>>, <<69932, 69932>>, <<69957, 69958>>, <<70018, 70018>>,
    <<70067, 70069>>, <<70079, 70080>>, <<70094, 70094>>, <<70188, 70190>>,
    <<70194, 70195>>, <<70197, 70197>>, <<70368, 70370>>, <<70402, 70403>>,
    <<70462, 70463>>, <<70465, 70468>>, <<70471, 70472>>, <<70475, 70477>>,
    <<70487, 70487>>, <<70498, 70499>>, <<70584, 70586>>, <<70594, 70594>>,
    <<70597, 70597>>, <<70599, 70602>>, <<70604, 70605>>, <<70607, 70607>>,
    <<70709, 70711>>, <<70720, 70721>>, <<70725, 70725>>, <<70832, 70834>>,
    <<70841, 70841>>, <<70843, 70846>>, <<70849, 70849>>, <<71087, 71089>>,
    <<71096, 71099>>, <<71102, 71102>>, <<71216, 71218>>, <<71227, 71228>>,
    <<71230, 71230>>, <<71340, 71340>>, <<71342, 71343>>, <<71350, 71350>>,
    <<71454, 71454>>, <<71456, 71457>>, <<71462, 71462>>, <<71724, 71726>>,
    <<71736, 71736>>, <<71984, 71989>>, <<71991, 71992>>, <<71997, 71997>>,
    <<72000, 72000>>, <<72002, 72002>>, <<72145, 72147>>, <<72156, 72159>>,
    <<72164, 72164>>, <<72249, 72249>>, <<72279, 72280>>, <<72343, 72343>>,
    <<72545, 72545>>, <<72549, 72549>>, <<72551, 72551>>, <<72751, 72751>>,
    <<72766, 72766>>, <<72873, 72873>>, <<72881, 72881>>, <<72884, 72884>>,
    <<73098, 73102>>, <<73107, 73108>>, <<73110, 73110>>, <<73461, 73462>>,
    <<73475, 73475>>, <<73524, 73525>>, <<73534, 73535>>, <<73537, 73537>>,
    <<90410, 90412>>, <<94033, 94087>>, <<94192, 94193>>, <<119141, 119142>>,
    <<119149, 119154>> >>

\* VS16_NARROW_TO_WIDE["9.0.0"]: narrow characters U+FE0F makes wide, as (first, last) ranges
VS16_NARROW_TO_WIDE == <<
    <<35, 35>>, <<42, 42>>, <<48, 57>>, <<169, 169>>, <<174, 174>>,
    <<8252, 8252>>, <<8265, 8265>>, <<8482, 8482>>, <<8505, 8505>>,
    <<8596, 8601>>, <<8617, 8618>>, <<9000, 9000>>, <<9167, 9167>>,
    <<9197, 9199>>, <<9201, 9202>>, <<9208, 9210>>, <<9410, 9410>>,
    <<9642, 9643>>, <<9654, 9654>>, <<9664, 9664>>, <<9723, 9724>>,
    <<9728, 9732>>, <<9742, 9742>>, <<9745, 9745>>, <<9752, 9752>>,
    <<9757, 9757>>, <<9760, 9760>>, <<9762, 9763>>, <<9766, 9766>>,
    <<9770, 9770>>, <<9774, 9775>>, <<9784, 9786>>, <<9792, 9792>>,
    <<9794, 9794>>, <<9823, 9824>>, <<9827, 9827>>, <<9829, 9830>>,
    <<9832, 9832>>, <<9851, 9851>>, <<9854, 9854>>, <<9874, 9874>>,
    <<9876, 9879>>, <<9881, 9881>>, <<9883, 9884>>, <<9888, 9888>>,
    <<9895, 9895>>, <<9904, 9905>>, <<9928, 9928>>, <<9935, 9935>>,
    <<9937, 9937>>, <<9939, 9939>>, <<9961, 9961>>, <<9968, 9969>>,
    <<9972, 9972>>, <<9975, 9977>>, <<9986, 9986>>, <<9992, 9993>>,
    <<9996, 9997>>, <<9999, 9999>>, <<10002, 10002>>, <<10004, 10004>>,
    <<10006, 10006>>, <<10013, 10013>>, <<10017, 10017>>, <<10035, 10036>>,
    <<10052, 10052>>, <<10055, 10055>>, <<10083, 10084>>, <<10145, 10145>>,
    <<10548, 10549>>, <<11013, 11015>>, <<127344, 127345>>,
    <<127358, 127359>>, <<127777, 127777>>, <<127780, 127788>>,
    <<127798, 127798>>, <<127869, 127869>>, <<127894, 127895>>,
    <<127897, 127899>>, <<127902, 127903>>, <<127947, 127950>>,
    <<127956, 127967>>, <<127987, 127987>>, <<127989, 127989>>,
    <<127991, 127991>>, <<128063, 128063>>, <<128065, 128065>>,
    <<128253, 128253>>, <<128329, 128330>>, <<128367, 128368>>,
    <<128371, 128377>>, <<128391, 128391>>, <<128394, 128397>>,
    <<128400, 128400>>, <<128421, 128421>>, <<128424, 128424>>,
    <<128433, 128434>>, <<128444, 128444>>, <<128450, 128452>>,
    <<128465, 128467>>, <<128476, 128478>>, <<128481, 128481>>,
    <<128483, 128483>>, <<128488, 128488>>, <<128495, 128495>>,
    <<128499, 128499>>, <<128506, 128506>>, <<128715, 128715>>,
    <<128717, 128719>>, <<128736, 128741>>, <<128745, 128745>>,
    <<128752, 128752>>, <<128755, 128755>> >>

\* ISC_CONSONANT: Indic consonants, as (first, last) ranges
ISC_CONSONANT == <<
    <<2325, 2361>>, <<2392, 2399>>, <<2424, 2431>>, <<2453, 2472>>,
    <<2474, 2480>>, <<2482, 2482>>, <<2486, 2489>>, <<2524, 2525>>,
    <<2527, 2527>>, <<2544, 2545>>, <<2581, 2600>>, <<2602, 2608>>,
    <<2610, 2611>>, <<2613, 2614>>, <<2616, 2617>>, <<2649, 2652>>,
    <<2654, 2654>>, <<2709, 2728>>, <<2730, 2736>>, <<2738, 2739>>,
    <<2741, 2745>>, <<2809, 2809>>, <<2837, 2856>>, <<2858, 2864>>,
    <<2866, 2867>>, <<2869, 2873>>, <<2908, 2909>>, <<2911, 2911>>,
    <<2929, 2929>>, <<2965, 2965>>, <<2969, 2970>>, <<2972, 2972>>,
    <<2974, 2975>>, <<2979, 2980>>, <<2984, 2986>>, <<2990, 3001>>,
    <<3093, 3112>>, <<3114, 3129>>, <<3160, 3162>>, <<3221, 3240>>,
    <<3242, 3251>>, <<3253, 3257>>, <<3294, 3294>>, <<3349, 3386>>,
    <<3482, 3505>>, <<3507, 3515>>, <<3517, 3517>>, <<3520, 3526>>,
    <<3585, 3630>>, <<3713, 3714>>, <<3716, 3716>>, <<3718, 3722>>,
    <<3724, 3747>>, <<3749, 3749>>, <<3751, 3758>>, <<3804, 3807>>,
    <<3904, 3911>>, <<3913, 3948>>, <<4096, 4128>>, <<4159, 4159>>,
    <<4176, 4177>>, <<4186, 4189>>, <<4193, 4193>>, <<4197, 4198>>,
    <<4206, 4208>>, <<4213, 4225>>, <<4238, 4238>>, <<5891, 5905>>,
    <<5919, 5919>>, <<5923, 5937>>, <<5955, 5969>>, <<5987, 5996>>,
    <<5998, 6000>>, <<6016, 6050>>, <<6400, 6430>>, <<6480, 6498>>,
    <<6528, 6571>>, <<6656, 6678>>, <<6688, 6732>>, <<6739, 6740>>,
    <<6931, 6963>>, <<6981, 6988>>, <<7050, 7072>>, <<7086, 7087>>,
    <<7099, 7101>>, <<7104, 7139>>, <<7168, 7203>>, <<7245, 7247>>,
    <<43015, 43018>>, <<43020, 43042>>, <<43072, 43101>>, <<43106, 43109>>,
    <<43113, 43120>>, <<43122, 43122>>, <<43154, 43187>>, <<43274, 43297>>,
    <<43312, 43334>>, <<43401, 43403>>, <<43407, 43442>>, <<43488, 43492>>,
    <<43495, 43503>>, <<43514, 43518>>, <<43526, 43560>>, <<43616, 43631>>,
    <<43633, 43635>>, <<43642, 43642>>, <<43646, 43695>>, <<43746, 43754>>,
    <<43968, 43981>>, <<43984, 43984>>, <<43986, 43994>>, <<68096, 68096>>,
    <<68112, 68115>>, <<68117, 68119>>, <<68121, 68149>>, <<69651, 69687>>,
    <<69749, 69749>>, <<69773, 69807>>, <<69895, 69926>>, <<69956, 69956>>,
    <<69959, 69959>>, <<69973, 70002>>, <<70033, 70066>>, <<70152, 70161>>,
    <<70163, 70187>>, <<70207, 70207>>, <<70276, 70278>>, <<70280, 70280>>,
    <<70282, 70285>>, <<70287, 70301>>, <<70303, 70312>>, <<70330, 70366>>,
    <<70421, 70440>>, <<70442, 70448>>, <<70450, 70451>>, <<70453, 70457>>,
    <<70546, 70581>>, <<70670, 70708>>, <<70799, 70831>>, <<71054, 71086>>,
    <<71182, 71215>>, <<71306, 71338>>, <<71352, 71352>>, <<71424, 71450>>,
    <<71488, 71494>>, <<71690, 71723>>, <<71948, 71955>>, <<71957, 71958>>,
    <<71960, 71983>>, <<72110, 72144>>, <<72192, 72192>>, <<72203, 72242>>,
    <<72272, 72272>>, <<72284, 72323>>, <<72718, 72750>>, <<72818, 72847>>,
    <<72972, 73008>>, <<73068, 73097>>, <<73440, 73457>>, <<73490, 73523>>,
    <<90369, 90397>>, <<93507, 93538>> >>

\* EXTENDED_PICTOGRAPHIC, as (first, last) ranges
EXTENDED_PICTOGRAPHIC == <<
    <<169, 169>>, <<174, 174>>, <<8252, 8252>>, <<8265, 8265>>,
    <<8482, 8482>>, <<8505, 8505>>, <<8596, 8601>>, <<8617, 8618>>,
    <<8986, 8987>>, <<9000, 9000>>, <<9167, 9167>>, <<9193, 9203>>,
    <<9208, 9210>>, <<9410, 9410>>, <<9642, 9643>>, <<9654, 9654>>,
    <<9664, 9664>>, <<9723, 9726>>, <<9728, 9732>>, <<9742, 9742>>,
    <<9745, 9745>>, <<9748, 9749>>, <<9752, 9752>>, <<9757, 9757>>,
    <<9760, 9760>>, <<9762, 9763>>, <<9766, 9766>>, <<9770, 9770>>,
    <<9774, 9775>>, <<9784, 9786>>, <<9792, 9792>>, <<9794, 9794>>,
    <<9800, 9811>>, <<9823, 9824>>, <<9827, 9827>>, <<9829, 9830>>,
    <<9832, 9832>>, <<9851, 9851>>, <<9854, 9855>>, <<9874, 9879>>,
    <<9881, 9881>>, <<9883, 9884>>, <<9888, 9889>>, <<9895, 9895>>,
    <<9898, 9899>>, <<9904, 9905>>, <<9917, 9918>>, <<9924, 9925>>,
    <<9928, 9928>>, <<9934, 9935>>, <<9937, 9937>>, <<9939, 9940>>,
    <<9961, 9962>>, <<9968, 9973>>, <<9975, 9978>>, <<9981, 9981>>,
    <<9986, 9986>>, <<9989, 9989>>, <<9992, 9997>>, <<9999, 9999>>,
    <<10002, 10002>>, <<10004, 10004>>, <<10006, 10006>>, <<10013, 10013>>,
    <<10017, 10017>>, <<10024, 10024>>, <<10035, 10036>>, <<10052, 10052>>,
    <<10055, 10055>>, <<10060, 10060>>, <<10062, 10062>>, <<10067, 10069>>,
    <<10071, 10071>>, <<10083, 10084>>, <<10133, 10135>>, <<10145, 10145>>,
    <<10160, 10160>>, <<10175, 10175>>, <<10548, 10549>>, <<11013, 11015>>,
    <<11035, 11036>>, <<11088, 11088>>, <<11093, 11093>>, <<12336, 12336>>,
    <<12349, 12349>>, <<12951, 12951>>, <<12953, 12953>>, <<126980, 126980>>,
    <<127020, 127023>>, <<127124, 127135>>, <<127151, 127152>>,
    <<127168, 127168>>, <<127183, 127184>>, <<127222, 127231>>,
    <<127344, 127345>>, <<127358, 127359>>, <<127374, 127374>>,
    <<127377, 127386>>, <<127406, 127461>>, <<127489, 127503>>,
    <<127514, 127514>>, <<127535, 127535>>, <<127538, 127546>>,
    <<127548, 127551>>, <<127561, 127583>>, <<127590, 127777>>,
    <<127780, 127891>>, <<127894, 127895>>, <<127897, 127899>>,
    <<127902, 127984>>, <<127987, 127989>>, <<127991, 127994>>,
    <<128000, 128253>>, <<128255, 128317>>, <<128329, 128334>>,
    <<128336, 128359>>, <<128367, 128368>>, <<128371, 128378>>,
    <<128391, 128391>>, <<128394, 128397>>, <<128400, 128400>>,
    <<128405, 128406>>, <<128420, 128421>>, <<128424, 128424>>,
    <<128433, 128434>>, <<128444, 128444>>, <<128450, 128452>>,
    <<128465, 128467>>, <<128476, 128478>>, <<128481, 128481>>,
    <<128483, 128483>>, <<128488, 128488>>, <<128495, 128495>>,
    <<128499, 128499>>, <<128506, 128591>>, <<128640, 128709>>,
    <<128715, 128722>>, <<128725, 128741>>, <<128745, 128745>>,
    <<128747, 128752>>, <<128755, 128767>>, <<128986, 129023>>,
    <<129036, 129039>>, <<129096, 129103>>, <<129114, 129119>>,
    <<129160, 129167>>, <<129198, 129199>>, <<129212, 129215>>,
    <<129218, 129231>>, <<129241, 129279>>, <<129292, 129338>>,
    <<129340, 129349>>, <<129351, 129535>>, <<129624, 129631>>,
    <<129646, 129791>>, <<130048, 131069>> >>

\* GRAPHEME_REGIONAL_INDICATOR, as (first, last) ranges
GRAPHEME_REGIONAL_INDICATOR == <<
    <<127462, 127487>> >>

\* _ISC_VIRAMA_SET
ISC_VIRAMA_SET ==
    {2381, 2509, 2637, 2765, 2893, 3021, 3149, 3277, 3405, 3530, 6980, 43014, 43204, 43456, 69702, 69817, 70080, 70197, 70477, 70722, 70850, 71103, 71231, 71350, 71737, 72160, 72767}

\* _FITZPATRICK_RANGE, the emoji skin tone modifiers
FITZPATRICK_RANGE == <<127995, 127999>>

\* U+200D ZERO WIDTH JOINER and U+FE0F VARIATION SELECTOR-16
ZWJ == 8205
VS16 == 65039

RECURSIVE BisearchIn(_, _, _, _)
BisearchIn(ucs, table, lbound, ubound) ==
    IF ubound < lbound THEN 0
    ELSE LET mid == (lbound + ubound) \div 2
         IN  IF ucs > table[mid][2] THEN BisearchIn(ucs, table, mid + 1, ubound)
             ELSE IF ucs < table[mid][1] THEN BisearchIn(ucs, table, lbound, mid - 1)
             ELSE 1

\* bisearch(ucs, table): 1 when ucs is in a range of table, else 0
bisearch(ucs, table) ==
    IF ucs < table[1][1] \/ ucs > table[Len(table)][2] THEN 0
    ELSE BisearchIn(ucs, table, 1, Len(table))

\* wcwidth(chr(ucs)): 1 for printable ASCII, -1 for C0/C1 controls, 0 for
\* the zero-width table (NUL included), 2 for the wide table, 1 otherwise
wcwidth(ucs) ==
    IF 32 <= ucs /\ ucs < 127 THEN 1
    ELSE IF (ucs # 0 /\ ucs < 32) \/ (127 <= ucs /\ ucs < 160) THEN -1
    ELSE IF bisearch(ucs, ZERO_WIDTH) = 1 THEN 0
    ELSE IF bisearch(ucs, WIDE_EASTASIAN) = 1 THEN 2
    ELSE 1

\* ucs in _REGIONAL_INDICATOR_SET
IsRegionalIndicator(ucs) ==
    /\ ucs >= GRAPHEME_REGIONAL_INDICATOR[1][1]
    /\ ucs <= GRAPHEME_REGIONAL_INDICATOR[1][2]

\* ucs in _EMOJI_ZWJ_SET
InEmojiZwjSet(ucs) ==
    bisearch(ucs, EXTENDED_PICTOGRAPHIC) = 1 \/ IsRegionalIndicator(ucs)

RECURSIVE RiBefore(_, _)
\* the number of consecutive regional indicators of str ending at index j
RiBefore(str, j) ==
    IF j >= 1 /\ IsRegionalIndicator(str[j]) THEN 1 + RiBefore(str, j - 1) ELSE 0

RECURSIVE WcsSum(_, _, _, _, _, _, _)
\* the while loop of wcswidth from index i (1-based) on; last_measured_idx
\* is 0 where the library holds -2
WcsSum(str, i, total_width, last_measured_idx, last_measured_ucs, last_was_virama, conjunct_pending) ==
    IF i > Len(str)
    THEN (IF conjunct_pending THEN total_width + 1 ELSE total_width)
    ELSE LET ucs == str[i]
         IN
         IF ucs = ZWJ
         THEN IF last_was_virama
              THEN WcsSum(str, i + 1, total_width, last_measured_idx,
                          last_measured_ucs, last_was_virama, conjunct_pending)
              ELSE IF i < Len(str)
                   THEN WcsSum(str, i + 2, total_width, last_measured_idx,
                               last_measured_ucs, FALSE, conjunct_pending)
                   ELSE WcsSum(str, i + 1, total_width, last_measured_idx,
                               last_measured_ucs, FALSE, conjunct_pending)
         ELSE IF ucs = VS16 /\ last_measured_idx >= 1
         THEN WcsSum(str, i + 1,
                     total_width + bisearch(str[last_measured_idx], VS16_NARROW_TO_WIDE),
                     0, last_measured_ucs, last_was_virama, conjunct_pending)
         ELSE IF ucs > 65535 /\ IsRegionalIndicator(ucs)
                 /\ RiBefore(str, i - 1) % 2 = 1
         THEN WcsSum(str, i + 1, total_width, last_measured_idx, ucs,
                     last_was_virama, conjunct_pending)
         ELSE IF ucs > 65535 /\ ~IsRegionalIndicator(ucs)
                 /\ FITZPATRICK_RANGE[1] <= ucs /\ ucs <= FITZPATRICK_RANGE[2]
                 /\ InEmojiZwjSet(last_measured_ucs)
         THEN WcsSum(str, i + 1, total_width, last_measured_idx,
                     last_measured_ucs, last_was_virama, conjunct_pending)
         ELSE IF last_was_virama /\ bisearch(ucs, ISC_CONSONANT) = 1
         THEN WcsSum(str, i + 1, total_width, i, ucs, FALSE, TRUE)
         ELSE LET w == wcwidth(ucs)
              IN  IF w < 0 THEN -1
                  ELSE IF w > 0
                  THEN WcsSum(str, i + 1,
                              total_width + (IF conjunct_pending THEN 1 ELSE 0) + w,
                              i, ucs, FALSE, FALSE)
                  ELSE IF last_measured_idx >= 1 /\ bisearch(ucs, CATEGORY_MC) = 1
                  THEN WcsSum(str, i + 1, total_width + 1, 0,
                              last_measured_ucs, FALSE, FALSE)
                  ELSE WcsSum(str, i + 1, total_width, last_measured_idx,
                              last_measured_ucs, ucs \in ISC_VIRAMA_SET,
                              conjunct_pending)

\* wcswidth(str): len(str) for printable ASCII; otherwise the widths of the
\* grapheme clusters of str, or -1 when a C0/C1 control character is measured
wcswidth(str) ==
    IF \A i \in 1..Len(str) : 32 <= str[i] /\ str[i] < 127
    THEN Len(str)
    ELSE WcsSum(str, 1, 0, 0, -1, FALSE, FALSE)

\* the range test of visible_width's fallback (l.64-66)
IsWideVisible(o) ==
    \/ (o >= 4352 /\ o <= 4447)        \* 0x1100..0x115F
    \/ (o >= 11904 /\ o <= 42191)      \* 0x2E80..0xA4CF
    \/ (o >= 44032 /\ o <= 55203)      \* 0xAC00..0xD7A3
    \/ (o >= 63744 /\ o <= 64255)      \* 0xF900..0xFAFF
    \/ (o >= 65040 /\ o <= 65049)      \* 0xFE10..0xFE19
    \/ (o >= 65072 /\ o <= 65135)      \* 0xFE30..0xFE6F
    \/ (o >= 65280 /\ o <= 65376)      \* 0xFF00..0xFF60
    \/ (o >= 127744 /\ o <= 128591)    \* 0x1F300..0x1F64F

RECURSIVE HeuristicWidth(_, _)
\* the fallback loop of visible_width (l.61-70)
HeuristicWidth(clean, i) ==
    IF i > Len(clean) THEN 0
    ELSE (IF IsWideVisible(clean[i]) THEN 2 ELSE 1) + HeuristicWidth(clean, i + 1)

\* visible_width(s) (l.53-70)
visible_width(str) ==
    LET clean == ANSI_RE_sub(str)
    IN  IF have_wcwidth /\ wcswidth(clean) >= 0
        THEN wcswidth(clean)
        ELSE HeuristicWidth(clean, 1)

\* the range test of truncate_ansi's fallback (l.96)
IsWideTruncate(o) ==
    (o >= 127744 /\ o <= 128591) \/ (o >= 4352 /\ o <= 4447)

\* ch_w of truncate_ansi (l.90-96)
ch_width(ch) ==
    IF have_wcwidth
    THEN LET w == wcswidth(<<ch>>) IN IF w # 0 /\ w > 0 THEN w ELSE 1
    ELSE IF IsWideTruncate(ch) THEN 2 ELSE 1

\* StrayEscOut with the bug of copying the unmatched ESC byte to the output
StrayEscOut_keep(out, ch) == Append(out, ch)

\* A stray ESC (no match at i): "i += 1; continue", the byte is not copied
StrayEscOut(out, ch) == out

RECURSIVE TruncateScan(_, _, _, _, _)
\* the while loop of truncate_ansi (l.79-101); returns out
TruncateScan(str, tgt, i, vis, out) ==
    IF i <= Len(str) /\ vis < tgt
    THEN IF str[i] = ESC
         THEN LET e == ANSI_RE_match(str, i)
              IN  IF e # 0
                  THEN TruncateScan(str, tgt, e, vis, out \o SubSeq(str, i, e - 1))
                  ELSE TruncateScan(str, tgt, i + 1, vis, StrayEscOut(out, str[i]))
         ELSE LET ch_w == ch_width(str[i])
              IN  IF vis + ch_w > tgt
                  THEN out
                  ELSE TruncateScan(str, tgt, i + 1, vis + ch_w, Append(out, str[i]))
    ELSE out

\* truncate_ansi with the bug of not appending the reset run
truncate_ansi_noreset(str, tgt) ==
    IF visible_width(str) <= tgt
    THEN str
    ELSE TruncateScan(str, tgt, 1, 0, <<>>)

\* truncate_ansi(s, target) (l.72-103)
truncate_ansi(str, tgt) ==
    IF visible_width(str) <= tgt
    THEN str
    ELSE TruncateScan(str, tgt, 1, 0, <<>>) \o RESET

\* " " * k
Spaces(k) == [j \in 1..k |-> SPACE]

\* pad_ansi(s, target, align) (l.105-116)
pad_ansi(str, tgt, al) ==
    LET cur == visible_width(str)
    IN  IF cur >= tgt
        THEN truncate_ansi(str, tgt)
        ELSE LET pad == tgt - cur
             IN  IF al = "center"
                 THEN LET left == pad \div 2
                          right == pad - left
                      IN  Spaces(left) \o str \o Spaces(right)
                 ELSE str \o Spaces(pad)

(***************************************************************************)
(* The text engine as a state machine: an input string is drawn, then      *)
(* truncate_ansi or pad_ansi is applied to it.                             *)
(***************************************************************************)
\* The pieces input strings are built from: the single characters ESC, '[',
\* 'm', a narrow letter, an emoji (wide everywhere), TAB (a control: wcwidth
\* -1), U+303F (wcwidth 1; wide for visible_width's fallback, narrow for
\* truncate_ansi's), and the complete escape run ESC[31m
Fragments ==
    {<<27>>, <<91>>, <<109>>, <<65>>, <<128512>>, <<9>>, <<12351>>,
     <<27, 91, 51, 49, 109>>}

RECURSIVE StringsUpTo(_)
\* every concatenation of at most n fragments
StringsUpTo(n) ==
    IF n = 0 THEN {<<>>}
    ELSE LET shorter == StringsUpTo(n - 1)
         IN  shorter \cup {x \o f : x \in shorter, f \in Fragments}

\* the render loop's variables while only the text engine is exercised
LoopIdle ==
    /\ pc = "idle"
    /\ frames = <<>>
    /\ box_w = 0
    /\ box_h = 0
    /\ fps = 1
    /\ cols = 0
    /\ term_w = 0
    /\ gi = 0
    /\ gather_out = <<>>
    /\ mods = <<>>
    /\ spec_lines = <<>>
    /\ idx = 0
    /\ padded_left = <<>>
    /\ row = 0
    /\ printed = <<>>
    /\ drawn_cols = 0
    /\ calls = <<>>
    /\ raised = {}
    /\ raised_before = FALSE
    /\ ticks = 0
    /\ now = 0
    /\ refreshed_at = 0
    /\ anim_dir = [exists |-> FALSE, files |-> {}]
    /\ gif = <<>>
    /\ gen_i = 0
    /\ tool = "none"

TextInit ==
    /\ have_wcwidth \in BOOLEAN
    /\ align = "left"
    /\ s \in StringsUpTo(MaxFragments)
    /\ target = 0
    /\ result = <<>>
    /\ result2 = <<>>
    /\ op = "input"
    /\ LoopIdle

Truncate ==
    /\ op = "input"
    /\ \E n \in 0..MaxTarget :
          /\ target' = n
          /\ result' = truncate_ansi(s, n)
    /\ op' = "truncate"
    /\ UNCHANGED <<have_wcwidth, align, s, result2, dirVars, loopVars>>

Pad ==
    /\ op = "input"
    /\ \E n \in 0..MaxTarget, al \in {"left", "center"} :
          /\ target' = n
          /\ align' = al
          /\ result' = pad_ansi(s, n, al)
    /\ op' = "pad"
    /\ UNCHANGED <<have_wcwidth, s, result2, dirVars, loopVars>>

Retruncate ==
    /\ op = "truncate"
    /\ result2' = truncate_ansi(result, target)
    /\ op' = "retruncate"
    /\ UNCHANGED <<cfgVars, s, target, result, dirVars, loopVars>>

TextNext == Truncate \/ Pad \/ Retruncate

TextSpec == TextInit /\ [][TextNext]_vars


(***************************************************************************)
(* The status panel.                                                       *)
(***************************************************************************)
\* the names of MODULE_FUNCS, in table order (l.387-417)
MODULE_NAMES == <<
    <<116, 105, 116, 108, 101>>,                                  \* title
    <<115, 101, 112, 97, 114, 97, 116, 111, 114>>,                \* separator
    <<111, 115>>,                                                 \* os
    <<104, 111, 115, 116>>,                                       \* host
    <<107, 101, 114, 110, 101, 108>>,                             \* kernel
    <<117, 112, 116, 105, 109, 101>>,                             \* uptime
    <<112, 97, 99, 107, 97, 103, 101, 115>>,                      \* packages
    <<115, 104, 101, 108, 108>>,                                  \* shell
    <<100, 105, 115, 112, 108, 97, 121>>,                         \* display
    <<100, 101>>,                                                 \* de
    <<119, 109>>,                                                 \* wm
    <<119, 109, 116, 104, 101, 109, 101>>,                        \* wmtheme
    <<116, 104, 101, 109, 101>>,                                  \* theme
    <<105, 99, 111, 110, 115>>,                                   \* icons
    <<102, 111, 110, 116>>,                                       \* font
    <<99, 117, 114, 115, 111, 114>>,                              \* cursor
    <<116, 101, 114, 109, 105, 110, 97, 108>>,                    \* terminal
    <<116, 101, 114, 109, 105, 110, 97, 108, 102, 111, 110, 116>>, \* terminalfont
    <<99, 112, 117>>,                                             \* cpu
    <<103, 112, 117>>,                                            \* gpu
    <<109, 101, 109, 111, 114, 121>>,                             \* memory
    <<115, 119, 97, 112>>,                                        \* swap
    <<100, 105, 115, 107>>,                                       \* disk
    <<108, 111, 99, 97, 108, 105, 112>>,                          \* localip
    <<98, 97, 116, 116, 101, 114, 121>>,                          \* battery
    <<112, 111, 119, 101, 114, 97, 100, 97, 112, 116, 101, 114>>, \* poweradapter
    <<108, 111, 99, 97, 108, 101>>,                               \* locale
    <<98, 114, 101, 97, 107>>,                                    \* break
    <<99, 111, 108, 111, 114, 115>> >>                            \* colors

\* the table the model iterates: the first NumFields entries of MODULE_FUNCS
MODULE_FUNCS == SubSeq(MODULE_NAMES, 1, NumFields)

NAME_separator == MODULE_NAMES[2]
NAME_colors == MODULE_NAMES[29]
NAME_title == MODULE_NAMES[1]

\* SEPARATOR_CHAR = " │ " (l.44)
SEPARATOR_CHAR == <<32, 9474, 32>>

\* (name, val) with val a string
Present(name, v) == [name |-> name, none |-> FALSE, val |-> v]
\* (name, None)
Absent(name) == [name |-> name, none |-> TRUE, val |-> <<>>]

\* str.capitalize() for the ASCII names of the table
capitalize(name) ==
    [j \in 1..Len(name) |->
        IF j = 1
        THEN (IF name[j] >= 97 /\ name[j] <= 122 THEN name[j] - 32 ELSE name[j])
        ELSE (IF name[j] >= 65 /\ name[j] <= 90 THEN name[j] + 32 ELSE name[j])]

\* the line build_spec_lines appends for one present field (l.435-446)
spec_line(m) ==
    IF m.name = NAME_separator \/ m.name = NAME_colors \/ m.name = NAME_title
    THEN m.val
    ELSE <<27, 91, 49, 109>> \o capitalize(m.name) \o <<58, 27, 91, 48, 109, 32>> \o m.val

RECURSIVE build_from(_, _)
build_from(ms, k) ==
    IF k > Len(ms) THEN <<>>
    ELSE IF ms[k].none THEN build_from(ms, k + 1)
         ELSE <<spec_line(ms[k])>> \o build_from(ms, k + 1)

\* build_spec_lines(mods) (l.430-447)
build_spec_lines(ms) == build_from(ms, 1)

(***************************************************************************)
(* The frame store: a directory of frame_<i>.txt files, written by         *)
(* gen_frames_from_gif (l.132-165) and read by load_frames_from_dir        *)
(* (l.119-130).  A directory is a record: whether it exists, and its       *)
(* entries.  An entry has a name and a kind: a regular file with its text, *)
(* a subdirectory, a FIFO, or a symbolic link to a name of the same        *)
(* directory.                                                              *)
(***************************************************************************)
\* "\n"
NEWLINE == 10

\* "frame_" (l.123, l.163)
FRAME_PREFIX == <<102, 114, 97, 109, 101, 95>>

\* ".txt" (l.123, l.163)
TXT_SUFFIX == <<46, 116, 120, 116>>

\* CHARS = "@%#*+=-:. " (l.40)
CHARS == <<64, 37, 35, 42, 43, 61, 45, 58, 46, 32>>

RECURSIVE Decimal(_)
\* str(i) for i >= 0, as f"{i}" formats it
Decimal(i) ==
    IF i < 10 THEN <<48 + i>> ELSE Append(Decimal(i \div 10), 48 + (i % 10))

\* f"frame_{i}.txt" (l.163)
frame_name(i) == FRAME_PREFIX \o Decimal(i) \o TXT_SUFFIX

RECURSIVE join(_)
\* "\n".join(rows) (l.164)
join(rows) ==
    IF rows = <<>> THEN <<>>
    ELSE IF Len(rows) = 1 THEN rows[1]
         ELSE rows[1] \o <<NEWLINE>> \o join(Tail(rows))

\* the line boundaries of str.splitlines(): \n \v \f \r \x1c \x1d \x1e \x85
\* U+2028 U+2029
LineBreaks == {10, 11, 12, 13, 28, 29, 30, 133, 8232, 8233}

RECURSIVE SplitFrom(_, _, _)
SplitFrom(t, i, cur) ==
    IF i > Len(t) THEN (IF cur = <<>> THEN <<>> ELSE <<cur>>)
    ELSE IF t[i] \in LineBreaks
         THEN <<cur>> \o SplitFrom(t, (IF t[i] = 13 /\ i < Len(t) /\ t[i + 1] = NEWLINE
                                        THEN i + 2 ELSE i + 1), <<>>)
         ELSE SplitFrom(t, i + 1, Append(cur, t[i]))

\* fh.read().splitlines() (l.127): the lines of t without their line breaks;
\* "\r\n" is one break and a final break opens no further line
splitlines(t) == SplitFrom(t, 1, <<>>)

\* the entries of the animation directory: a regular file, a subdirectory, a
\* FIFO, and a symbolic link to the name to
File(name, text) == [name |-> name, kind |-> "file", text |-> text, to |-> <<>>]
Subdir(name) == [name |-> name, kind |-> "dir", text |-> <<>>, to |-> <<>>]
Fifo(name) == [name |-> name, kind |-> "fifo", text |-> <<>>, to |-> <<>>]
Link(name, to) == [name |-> name, kind |-> "link", text |-> <<>>, to |-> to]

\* dir has an entry called name, and that entry
has(dir, name) == \E f \in dir.files : f.name = name
entry(dir, name) == CHOOSE f \in dir.files : f.name = name

\* the number of symbolic links the system follows for one path before it
\* gives up with ELOOP
MAXSYMLINKS == 40

RECURSIVE resolve(_, _, _)
\* the name the path name leads to when its symbolic links are followed, at
\* most n of them; <<>> when there are more (ELOOP)
resolve(dir, name, n) ==
    IF has(dir, name) /\ entry(dir, name).kind = "link"
    THEN (IF n = 0 THEN <<>> ELSE resolve(dir, entry(dir, name).to, n - 1))
    ELSE name

\* what a path name leads to: "file", "dir", "fifo", "missing" for no entry
\* (a dangling link, or no such name), "loop" for more than MAXSYMLINKS links
kind_at(dir, name) ==
    LET r == resolve(dir, name, MAXSYMLINKS)
    IN  IF r = <<>> THEN "loop"
        ELSE IF has(dir, r) THEN entry(dir, r).kind ELSE "missing"

\* f.is_file() (l.123): follows symbolic links, False for a dangling one and
\* for a chain of more than MAXSYMLINKS links
is_file(dir, f) == kind_at(dir, f.name) = "file"

RECURSIVE universal_newlines(_, _)
\* the text a file opened in text mode gives for the stored text t from
\* position i on: "\r\n" and "\r" are read as "\n"
universal_newlines(t, i) ==
    IF i > Len(t) THEN <<>>
    ELSE IF t[i] = 13
         THEN <<NEWLINE>> \o universal_newlines(t, (IF i < Len(t) /\ t[i + 1] = NEWLINE
                                                     THEN i + 2 ELSE i + 1))
         ELSE <<t[i]>> \o universal_newlines(t, i + 1)

\* the text read through the path name, which leads to a regular file
\* (f.open("r"), fh.read(), l.126-127)
read_text(dir, name) ==
    universal_newlines(entry(dir, resolve(dir, name, MAXSYMLINKS)).text, 1)

\* open(path, "w") raises: the path leads to a directory (IsADirectoryError)
\* or through more than MAXSYMLINKS links (OSError, ELOOP)
open_raises(dir, name) == kind_at(dir, name) \in {"dir", "loop"}

\* the directory after text was written through the path name, which leads
\* to a regular file or to no entry: the file the path leads to holds text
write_text(dir, name, text) ==
    LET r == resolve(dir, name, MAXSYMLINKS)
    IN  [dir EXCEPT !.files = {f \in @ : f.name # r} \cup {File(r, text)}]

\* the name of link k of a chain: c1, c2, ..
chain_name(k) == <<99>> \o Decimal(k)

\* a chain of n symbolic links from name to the name to: name -> c1 -> c2 ->
\* .. -> to
chain(name, n, to) ==
    {Link(IF k = 0 THEN name ELSE chain_name(k), IF k = n - 1 THEN to ELSE chain_name(k + 1)) : k \in 0..(n - 1)}

\* f.name.startswith("frame_") and f.suffix == ".txt" (l.123)
IsFrameName(name) ==
    /\ Len(name) >= Len(FRAME_PREFIX) + Len(TXT_SUFFIX)
    /\ SubSeq(name, 1, Len(FRAME_PREFIX)) = FRAME_PREFIX
    /\ SubSeq(name, Len(name) - Len(TXT_SUFFIX) + 1, Len(name)) = TXT_SUFFIX

\* the list comprehension of l.123
frame_files(dir) == {f \in dir.files : is_file(dir, f) /\ IsFrameName(f.name)}

\* a < b for two str: the order sorted() puts the paths of one directory in
LexLess(a, b) ==
    \E k \in 1..Len(b) :
        /\ k <= Len(a) + 1
        /\ SubSeq(a, 1, k - 1) = SubSeq(b, 1, k - 1)
        /\ (k = Len(a) + 1 \/ a[k] < b[k])

RECURSIVE sorted(_)
\* sorted(files) (l.123)
sorted(fs) ==
    IF fs = {} THEN <<>>
    ELSE LET m == CHOOSE x \in fs : \A y \in fs \ {x} : LexLess(x.name, y.name)
         IN  <<m>> \o sorted(fs \ {m})

\* load_frames_from_dir with the bug of not testing for an empty frame list
load_raises_missing(dir) == ~dir.exists

\* load_frames_from_dir(anim_dir) raises FileNotFoundError (l.121-122, l.128-129)
load_raises(dir) == ~dir.exists \/ frame_files(dir) = {}

\* the list load_frames_from_dir(anim_dir) returns (l.123-130)
load_frames_from_dir(dir) ==
    LET files == sorted(frame_files(dir))
    IN  [k \in 1..Len(files) |-> splitlines(read_text(dir, files[k].name))]

(***************************************************************************)
(* render_loop (l.449-489).                                                *)
(***************************************************************************)
Max(a, b) == IF a >= b THEN a ELSE b

\* "No info"
NO_INFO == <<78, 111, 32, 105, 110, 102, 111>>

\* constrain with the bug of not filling a short frame with blank rows
constrain_short(frame, h) ==
    SubSeq(frame, 1, IF h >= 0 THEN (IF Len(frame) <= h THEN Len(frame) ELSE h)
                     ELSE Max(0, Len(frame) + h))

\* frame[:box_h] + [""] * max(0, box_h - len(frame)) (l.471); a negative
\* box_h makes the slice drop the last -box_h rows, and nothing is appended
constrain(frame, h) ==
    IF h >= 0
    THEN [j \in 1..h |-> IF j <= Len(frame) THEN frame[j] ELSE <<>>]
    ELSE SubSeq(frame, 1, Max(0, Len(frame) + h))

\* max_lines with the bug of counting the rows of the box only
max_lines_box == box_h

\* max_lines (l.478)
max_lines == Max(box_h, Len(spec_lines))

\* left of row i (0-based), l.480
left_of(i) == IF i < Len(padded_left) THEN padded_left[i + 1] ELSE Spaces(box_w)

\* right of row i (0-based), l.481
right_of(i) == IF i < Len(spec_lines) THEN spec_lines[i + 1] ELSE <<>>

\* allowed (l.483)
allowed_for(left, w) ==
    Max(0, w - visible_width(left) - visible_width(SEPARATOR_CHAR))

\* the line printed for left and right when the column count is w (l.483-485)
compose(left, right, w) ==
    left \o SEPARATOR_CHAR \o truncate_ansi(right, allowed_for(left, w))

\* The values a provider may return
Values == {<<65, 12351>>}

\* The frame lists a run may have loaded: a frame of one row and a frame of
\* three rows whose first has a wide glyph at the box's edge; and a frame of
\* one row, a frame of one row more than the box and a frame of as many rows
\* as the box
FrameChoices ==
    { << << <<65, 66>> >>, << <<65, 128512>>, <<65>>, <<9, 66, 67>> >> >>,
      << << <<67>> >>,
         [j \in 1..(BoxH + 1) |-> <<68, 48 + j>>],
         [j \in 1..BoxH |-> <<66, 48 + j>>] >> }

\* the directory after the frames fs were written into it as frame_0.txt ..
written(fs) ==
    [exists |-> TRUE,
     files |-> {File(frame_name(k - 1), join(fs[k])) : k \in 1..Len(fs)}]

\* entries that are no frame files: x.txt, frame_0.log, a directory
\* frame_9.txt, and a dangling symbolic link frame_8.txt
Strays ==
    {File(<<120>> \o TXT_SUFFIX, <<65>>),
     File(FRAME_PREFIX \o <<48, 46, 108, 111, 103>>, <<65>>),
     Subdir(frame_name(9)),
     Link(frame_name(8), <<110>>)}

\* The animation directories a run may be pointed at: missing, empty, holding
\* no frame file, holding a file t that frame_0.txt leads to through one link
\* too many, and holding the frame files of FrameChoices
DirChoices ==
    {[exists |-> FALSE, files |-> {}],
     [exists |-> TRUE, files |-> {}],
     [exists |-> TRUE, files |-> Strays],
     [exists |-> TRUE,
      files |-> chain(frame_name(0), MAXSYMLINKS + 1, <<116>>) \cup {File(<<116>>, <<65>>)}]}
    \cup {[written(fs) EXCEPT !.files = @ \cup Strays] : fs \in FrameChoices}

\* The terminal widths
Cols == {5, 7}

\* The frame rates (frames per second): negative, zero and positive
FpsChoices == {-1, 0, 12}

\* states in which the loop has not ended
Running == pc \in {"gather0", "loop", "gather", "draw", "sleep"}

LoopInit ==
    /\ have_wcwidth \in BOOLEAN
    /\ align \in {"left", "center"}
    /\ s = <<>> /\ target = 0 /\ result = <<>> /\ result2 = <<>> /\ op = "none"
    /\ pc = "main"
    /\ anim_dir \in DirChoices
    /\ gif = <<>>
    /\ gen_i = 0
    /\ tool = "none"
    /\ frames = <<>>
    /\ box_w = BoxW
    /\ box_h = BoxH
    /\ fps \in FpsChoices
    /\ cols \in Cols
    /\ term_w = 0
    /\ gi = 0
    /\ gather_out = <<>>
    /\ mods = <<>>
    /\ spec_lines = <<>>
    /\ idx = 0
    /\ padded_left = <<>>
    /\ row = 0
    /\ printed = <<>>
    /\ drawn_cols = 0
    /\ calls = [k \in 1..NumFields |-> 0]
    /\ raised = {}
    /\ raised_before = FALSE
    /\ ticks = 0
    /\ now = 0
    /\ refreshed_at = 0

\* main loads the frames: on an exception it prints the error and returns
\* (l.520-525)
LoadFrames ==
    /\ pc = "main"
    /\ IF load_raises(anim_dir)
       THEN pc' = "load_failed" /\ frames' = frames
       ELSE pc' = "loaded" /\ frames' = load_frames_from_dir(anim_dir)
    /\ UNCHANGED <<cfgVars, textVars, dirVars, drawn_cols, box_w, box_h, fps, cols,
                   term_w, gi, gather_out, mods, spec_lines, idx, padded_left,
                   row, printed, calls, raised, raised_before, ticks, now,
                   refreshed_at>>

\* main calls render_loop, which calls gather_all_modules (l.527, l.451)
EnterLoop ==
    /\ pc = "loaded"
    /\ pc' = "gather0"
    /\ gi' = 1
    /\ gather_out' = <<>>
    /\ UNCHANGED <<cfgVars, textVars, dirVars, drawn_cols, frames, box_w, box_h, fps, cols, term_w,
                   mods, spec_lines, idx, padded_left, row, printed, calls,
                   raised, raised_before, ticks, now, refreshed_at>>

\* one iteration of gather_all_modules' loop in which func() returns (l.421-426)
ProviderReturns ==
    /\ pc \in {"gather0", "gather"}
    /\ gi <= Len(MODULE_FUNCS)
    /\ \E m \in {Present(MODULE_FUNCS[gi], v) : v \in Values}
              \cup {Absent(MODULE_FUNCS[gi])} :
          gather_out' = Append(gather_out, m)
    /\ calls' = [calls EXCEPT ![gi] = @ + 1]
    /\ gi' = gi + 1
    /\ UNCHANGED <<cfgVars, textVars, dirVars, drawn_cols, pc, frames, box_w, box_h, fps, cols, term_w,
                   mods, spec_lines, idx, padded_left, row, printed,
                   raised, raised_before, ticks, now, refreshed_at>>

\* ProviderRaises with the bug of leaving the loop at the first exception:
\* the fields after it are not queried
ProviderRaises_break ==
    /\ pc \in {"gather0", "gather"}
    /\ gi <= Len(MODULE_FUNCS)
    /\ gather_out' = Append(gather_out, Absent(MODULE_FUNCS[gi]))
    /\ calls' = [calls EXCEPT ![gi] = @ + 1]
    /\ raised' = raised \cup {gi}
    /\ gi' = Len(MODULE_FUNCS) + 1
    /\ UNCHANGED <<cfgVars, textVars, dirVars, drawn_cols, pc, frames, box_w, box_h, fps,
                   cols, term_w, mods, spec_lines, idx, padded_left, row,
                   printed, raised_before, ticks, now, refreshed_at>>

\* one iteration of gather_all_modules' loop in which func() raises an
\* Exception: val = None, and the loop goes on (l.422-426)
ProviderRaises ==
    /\ pc \in {"gather0", "gather"}
    /\ gi <= Len(MODULE_FUNCS)
    /\ gather_out' = Append(gather_out, Absent(MODULE_FUNCS[gi]))
    /\ calls' = [calls EXCEPT ![gi] = @ + 1]
    /\ raised' = raised \cup {gi}
    /\ gi' = gi + 1
    /\ UNCHANGED <<cfgVars, textVars, dirVars, drawn_cols, pc, frames, box_w, box_h, fps, cols, term_w,
                   mods, spec_lines, idx, padded_left, row, printed,
                   raised_before, ticks, now, refreshed_at>>

\* the entry gather returns; l.451-462.  delay = 1.0 / fps (l.462) raises
\* ZeroDivisionError for fps = 0, before the try block: the exception leaves
\* render_loop and main
FinishEntryGather ==
    /\ pc = "gather0"
    /\ gi > Len(MODULE_FUNCS)
    /\ mods' = gather_out
    /\ spec_lines' = (IF build_spec_lines(gather_out) = <<>>
                      THEN <<NO_INFO>> ELSE build_spec_lines(gather_out))
    /\ term_w' = cols
    /\ idx' = 0
    /\ refreshed_at' = now
    /\ pc' = (IF fps = 0 THEN "raised" ELSE "loop")
    /\ UNCHANGED <<cfgVars, textVars, dirVars, drawn_cols, frames, box_w, box_h, fps, cols, gi,
                   gather_out, padded_left, row, printed, calls, raised,
                   raised_before, ticks, now>>

\* "while True:" and the call of gather_all_modules at l.466
StartTick ==
    /\ pc = "loop"
    /\ ticks < MaxTicks
    /\ pc' = "gather"
    /\ gi' = 1
    /\ gather_out' = <<>>
    /\ raised_before' = (raised_before \/ raised # {})
    /\ raised' = {}
    /\ printed' = <<>>
    /\ UNCHANGED <<cfgVars, textVars, dirVars, drawn_cols, frames, box_w, box_h, fps, cols, term_w,
                   mods, spec_lines, idx, padded_left, row, calls, ticks, now,
                   refreshed_at>>

\* the gather of l.466 returns; l.466-478
FinishTickGather ==
    /\ pc = "gather"
    /\ gi > Len(MODULE_FUNCS)
    /\ mods' = gather_out
    /\ spec_lines' = build_spec_lines(gather_out)
    /\ padded_left' = LET frame == constrain(frames[idx + 1], box_h)
                      IN  [j \in 1..Len(frame) |-> pad_ansi(frame[j], box_w, align)]
    /\ row' = 0
    /\ refreshed_at' = now
    /\ pc' = "draw"
    /\ UNCHANGED <<cfgVars, textVars, dirVars, drawn_cols, frames, box_w, box_h, fps, cols, term_w, gi,
                   gather_out, idx, printed, calls, raised, raised_before,
                   ticks, now>>

\* one iteration of "for i in range(max_lines)" (l.479-485)
DrawRow ==
    /\ pc = "draw"
    /\ row < max_lines
    /\ printed' = Append(printed,
                     [left |-> left_of(row),
                      right |-> right_of(row),
                      allowed |-> allowed_for(left_of(row), term_w),
                      line |-> compose(left_of(row), right_of(row), term_w),
                      term_w |-> term_w])
    /\ drawn_cols' = cols
    /\ row' = row + 1
    /\ UNCHANGED <<cfgVars, textVars, dirVars, pc, frames, box_w, box_h, fps, cols, term_w,
                   gi, gather_out, mods, spec_lines, idx, padded_left, calls,
                   raised, raised_before, ticks, now, refreshed_at>>

\* AdvanceFrame with the bug of not wrapping the index around
AdvanceFrame_nowrap ==
    /\ pc = "draw"
    /\ row >= max_lines
    /\ idx' = idx + 1
    /\ pc' = "sleep"
    /\ UNCHANGED <<cfgVars, textVars, dirVars, drawn_cols, frames, box_w, box_h, fps, cols, term_w,
                   gi, gather_out, mods, spec_lines, padded_left, row, printed,
                   calls, raised, raised_before, ticks, now, refreshed_at>>

\* the for loop is over: idx = (idx + 1) % total_frames (l.486)
AdvanceFrame ==
    /\ pc = "draw"
    /\ row >= max_lines
    /\ idx' = (idx + 1) % Len(frames)
    /\ pc' = "sleep"
    /\ UNCHANGED <<cfgVars, textVars, dirVars, drawn_cols, frames, box_w, box_h, fps, cols, term_w,
                   gi, gather_out, mods, spec_lines, padded_left, row, printed,
                   calls, raised, raised_before, ticks, now, refreshed_at>>

\* time.sleep(delay) with delay = 1.0 / fps (l.462, l.487), in whole
\* milliseconds.  A negative delay makes time.sleep raise ValueError, which
\* l.488 does not catch: the exception leaves render_loop and main
Sleep ==
    /\ pc = "sleep"
    /\ IF fps < 0
       THEN pc' = "raised" /\ UNCHANGED <<now, ticks>>
       ELSE /\ now' = now + (1000 \div fps)
            /\ ticks' = ticks + 1
            /\ pc' = "loop"
    /\ UNCHANGED <<cfgVars, textVars, dirVars, drawn_cols, frames, box_w, box_h, fps, cols, term_w,
                   gi, gather_out, mods, spec_lines, idx, padded_left, row,
                   printed, calls, raised, raised_before, refreshed_at>>

\* KeyboardInterrupt: caught by l.488 inside the try block, escaping
\* render_loop when raised before it (l.451-462)
Interrupt ==
    /\ Running
    /\ pc' = IF pc = "gather0" THEN "escaped" ELSE "stopped"
    /\ UNCHANGED <<cfgVars, textVars, dirVars, drawn_cols, frames, box_w, box_h, fps, cols, term_w,
                   gi, gather_out, mods, spec_lines, idx, padded_left, row,
                   printed, calls, raised, raised_before, ticks, now,
                   refreshed_at>>

\* the user resizes the terminal
Resize ==
    /\ Running
    /\ \E c \in Cols \ {cols} : cols' = c
    /\ UNCHANGED <<cfgVars, textVars, dirVars, drawn_cols, pc, frames, box_w, box_h, fps, term_w,
                   gi, gather_out, mods, spec_lines, idx, padded_left, row,
                   printed, calls, raised, raised_before, ticks, now,
                   refreshed_at>>

LoopNext ==
    \/ LoadFrames
    \/ EnterLoop
    \/ ProviderReturns
    \/ ProviderRaises
    \/ FinishEntryGather
    \/ StartTick
    \/ FinishTickGather
    \/ DrawRow
    \/ AdvanceFrame
    \/ Sleep
    \/ Interrupt
    \/ Resize

LoopSpec == LoopInit /\ [][LoopNext]_vars

(***************************************************************************)
(* Generating frames and loading them back: a generator run, that is main  *)
(* with --gen-frames (l.509-518) or the main of gifzitto-frames.py or of   *)
(* gif2ascii_clean.py, then main without --gen-frames (l.520-525).         *)
(***************************************************************************)
\* the rows the generator computes for frame k of a GIF (l.144-162,
\* frame_to_ascii_bounded), height rows of two characters of CHARS that tell
\* the frames apart
GifRows(k, height) ==
    [y \in 1..height |-> <<CHARS[(k \div 10) + 1], CHARS[(k % 10) + 1]>>]

\* The input GIFs: 1..MaxGif frames, converted at 1..MaxGifRows rows
GifChoices ==
    {[k \in 1..n |-> GifRows(k - 1, height)] : n \in 1..MaxGif, height \in 1..MaxGifRows}

\* The generators
Tools == {"gifzittofetch", "gifzitto-frames", "gif2ascii_clean"}

\* The output directories of a generator run: missing; empty; holding a
\* subdirectory named frame_1.txt; holding symbolic links (frame_0.txt
\* dangling and frame_1.txt to itself; frame_1.txt to a subdirectory;
\* frame_1.txt to a file t through MAXSYMLINKS links, and through one more);
\* holding a FIFO named frame_1.txt; and holding the frames of an earlier
\* run, the last with the line ends "\r\n" and "\r"
GenDirChoices ==
    {[exists |-> FALSE, files |-> {}],
     [exists |-> TRUE, files |-> {}],
     [exists |-> TRUE, files |-> {Subdir(frame_name(1))}],
     [exists |-> TRUE,
      files |-> {Link(frame_name(0), <<101>>), Link(frame_name(1), frame_name(1))}],
     [exists |-> TRUE,
      files |-> {Subdir(<<100>>), Link(frame_name(1), <<100>>)}],
     [exists |-> TRUE,
      files |-> chain(frame_name(1), MAXSYMLINKS, <<116>>) \cup {File(<<116>>, <<65>>)}],
     [exists |-> TRUE,
      files |-> chain(frame_name(1), MAXSYMLINKS + 1, <<116>>) \cup {File(<<116>>, <<65>>)}],
     [exists |-> TRUE, files |-> {Fifo(frame_name(1))}],
     [exists |-> TRUE,
      files |-> {File(frame_name(0), <<65>>), File(frame_name(1), <<66>>),
                 File(frame_name(2), <<67, 13, 10, 68, 13, 69>>)}]}

\* the directory after clean_old_frames(out_dir) of gifzitto-frames.py: every
\* entry matching frame_*.txt is unlinked, a symbolic link as itself;
\* unlinking a subdirectory raises, and the exception is swallowed
clean_old_frames(dir) ==
    [dir EXCEPT !.files = {f \in @ : ~IsFrameName(f.name) \/ f.kind = "dir"}]

GenInit ==
    /\ have_wcwidth = FALSE
    /\ align = "left"
    /\ s = <<>> /\ target = 0 /\ result = <<>> /\ result2 = <<>> /\ op = "none"
    /\ pc = "gen_start"
    /\ anim_dir \in GenDirChoices
    /\ gif \in GifChoices
    /\ gen_i = 0
    /\ tool \in Tools
    /\ frames = <<>>
    /\ box_w = BoxW
    /\ box_h = BoxH
    /\ fps = 1
    /\ cols = 0
    /\ term_w = 0
    /\ gi = 0
    /\ gather_out = <<>>
    /\ mods = <<>>
    /\ spec_lines = <<>>
    /\ idx = 0
    /\ padded_left = <<>>
    /\ row = 0
    /\ printed = <<>>
    /\ drawn_cols = 0
    /\ calls = [k \in 1..NumFields |-> 0]
    /\ raised = {}
    /\ raised_before = FALSE
    /\ ticks = 0
    /\ now = 0
    /\ refreshed_at = 0

\* the generator creates the output directory (l.139; mkdir of the two
\* scripts), and gifzitto-frames.py removes the old frame files
StartGen ==
    /\ pc = "gen_start"
    /\ anim_dir' = (IF tool = "gifzitto-frames"
                    THEN clean_old_frames([anim_dir EXCEPT !.exists = TRUE])
                    ELSE [anim_dir EXCEPT !.exists = TRUE])
    /\ pc' = "gen"
    /\ UNCHANGED <<cfgVars, textVars, gif, gen_i, tool, frames, box_w, box_h, fps,
                   cols, term_w, gi, gather_out, mods, spec_lines, idx,
                   padded_left, row, printed, drawn_cols, calls, raised,
                   raised_before, ticks, now, refreshed_at>>

\* one iteration of "for i, frame in enumerate(...)": frame i is written to
\* frame_{i}.txt (l.142-165, save_frame_rows).  When open raises, main of
\* gifzittofetch.py reports the failure and returns (l.517-518) and the two
\* scripts end with the exception.  Opening a FIFO waits for a reader: the
\* generator stays there, or a reader takes the text and the loop goes on, or
\* the reader has closed the FIFO when the text is flushed and the write
\* raises BrokenPipeError (an Exception, handled like a failing open)
WriteFrame ==
    /\ pc = "gen"
    /\ gen_i < Len(gif)
    /\ \/ /\ open_raises(anim_dir, frame_name(gen_i))
          /\ pc' = (IF tool = "gifzittofetch" THEN "gen_failed" ELSE "gen_raised")
          /\ UNCHANGED <<anim_dir, gen_i>>
       \/ /\ kind_at(anim_dir, frame_name(gen_i)) = "fifo"
          /\ \/ pc' = "gen_blocked" /\ gen_i' = gen_i
             \/ pc' = pc /\ gen_i' = gen_i + 1
             \/ /\ join(gif[gen_i + 1]) # <<>>
                /\ pc' = (IF tool = "gifzittofetch" THEN "gen_failed" ELSE "gen_raised")
                /\ gen_i' = gen_i
          /\ UNCHANGED anim_dir
       \/ /\ kind_at(anim_dir, frame_name(gen_i)) \in {"file", "missing"}
          /\ anim_dir' = write_text(anim_dir, frame_name(gen_i), join(gif[gen_i + 1]))
          /\ gen_i' = gen_i + 1
          /\ pc' = pc
    /\ UNCHANGED <<cfgVars, textVars, gif, tool, frames, box_w, box_h, fps,
                   cols, term_w, gi, gather_out, mods, spec_lines, idx,
                   padded_left, row, printed, drawn_cols, calls, raised,
                   raised_before, ticks, now, refreshed_at>>

\* the generator reports the count and its main returns; the next run is
\* main of gifzittofetch.py without --gen-frames (l.165, l.515-518)
GenReturns ==
    /\ pc = "gen"
    /\ gen_i = Len(gif)
    /\ pc' = "main"
    /\ UNCHANGED <<cfgVars, textVars, dirVars, frames, box_w, box_h, fps, cols,
                   term_w, gi, gather_out, mods, spec_lines, idx, padded_left,
                   row, printed, drawn_cols, calls, raised, raised_before, ticks,
                   now, refreshed_at>>

GenNext == StartGen \/ WriteFrame \/ GenReturns \/ LoadFrames

GenSpec == GenInit /\ [][GenNext]_vars

(***************************************************************************)
(* Properties of the text engine.                                          *)
(***************************************************************************)
\* every ESC of str is the first byte of a complete escape run
RECURSIVE NoStrayEscFrom(_, _)
NoStrayEscFrom(str, i) ==
    IF i > Len(str) THEN TRUE
    ELSE IF str[i] = ESC
         THEN LET e == ANSI_RE_match(str, i)
              IN  e # 0 /\ NoStrayEscFrom(str, e)
         ELSE NoStrayEscFrom(str, i + 1)

NoStrayEsc(str) == NoStrayEscFrom(str, 1)

RECURSIVE RunsFrom(_, _)
\* the escape runs of str, in order
RunsFrom(str, i) ==
    IF i > Len(str) THEN <<>>
    ELSE LET e == ANSI_RE_match(str, i)
         IN  IF e # 0 THEN <<SubSeq(str, i, e - 1)>> \o RunsFrom(str, e)
             ELSE RunsFrom(str, i + 1)

Runs(str) == RunsFrom(str, 1)

RECURSIVE GlyphPos(_, _, _)
\* the index in str of its k-th character outside escape runs (k >= 1), or
\* Len(str) + 1 when there are fewer than k
GlyphPos(str, i, k) ==
    IF i > Len(str) THEN i
    ELSE LET e == ANSI_RE_match(str, i)
         IN  IF e # 0 THEN GlyphPos(str, e, k)
             ELSE IF k = 1 THEN i ELSE GlyphPos(str, i + 1, k - 1)

IsPrefix(a, b) == Len(a) <= Len(b) /\ SubSeq(b, 1, Len(a)) = a

EndsWithReset(str) ==
    Len(str) >= Len(RESET) /\ SubSeq(str, Len(str) - Len(RESET) + 1, Len(str)) = RESET

\* c is a glyph of width 1 for the width table in use: wcwidth(c) = 1 with the
\* library, outside visible_width's wide ranges without it; ESC is no glyph
IsWidth1Glyph(c) ==
    c # ESC /\ (IF have_wcwidth THEN wcwidth(c) = 1 ELSE ~IsWideVisible(c))

\* every character of str outside its escape runs is a glyph of width 1
AllWidth1(str) ==
    LET clean == ANSI_RE_sub(str)
    IN  \A i \in 1..Len(clean) : IsWidth1Glyph(clean[i])

\* C1: the result of truncate_ansi(s, n) is never wider than n.
C1_TruncateWithinTarget ==
    op = "truncate" => visible_width(result) <= target

\* C2: the result of pad_ansi(s, n, align) is exactly n cells wide.
C2_PadExactWidth ==
    op = "pad" => visible_width(result) = target

\* C3: truncating a truncation result again with the same target changes nothing.
C3_TruncateIdempotent ==
    op = "retruncate" => result2 = result

\* C4 as stated: every ESC of any result of truncate_ansi starts a complete
\* escape run.
C4_NoPartialEscapeEver ==
    op = "truncate" => NoStrayEsc(result)

\* C4: when truncate_ansi actually truncates (visible_width(s) > n), or when
\* every ESC of s already starts a complete escape run, every ESC of the result
\* starts a complete escape run.
C4_NoPartialEscape ==
    (op = "truncate" /\ (visible_width(s) > target \/ NoStrayEsc(s)))
        => NoStrayEsc(result)

C4_Witness ==
    /\ op = "truncate"
    /\ visible_width(s) > target
    /\ ~NoStrayEsc(s)
    /\ Len(Runs(s)) >= 1
    /\ Len(Runs(result)) >= 2

\* C5: for a string of width-1 glyphs and escape runs and n < visible_width(s),
\* the visible characters of truncate_ansi(s, n) are the first n visible
\* characters of s, the escape runs of s before its n-th visible character are
\* kept in order, and the result ends with the reset run.
C5_PrefixRunsReset ==
    (op = "truncate" /\ AllWidth1(s) /\ target < visible_width(s)) =>
        /\ ANSI_RE_sub(result) = SubSeq(ANSI_RE_sub(s), 1, target)
        /\ (target >= 1 =>
              IsPrefix(Runs(SubSeq(s, 1, GlyphPos(s, 1, target) - 1)), Runs(result)))
        /\ EndsWithReset(result)

C5_Witness ==
    /\ op = "truncate"
    /\ AllWidth1(s)
    /\ target >= 1
    /\ target < visible_width(s)
    /\ Len(Runs(SubSeq(s, 1, GlyphPos(s, 1, target) - 1))) >= 1

(***************************************************************************)
(* Properties of the render loop.                                          *)
(***************************************************************************)
\* the number of present (not None) entries of ms
RECURSIVE CountPresent(_, _)
CountPresent(ms, k) ==
    IF k > Len(ms) THEN 0
    ELSE (IF ms[k].none THEN 0 ELSE 1) + CountPresent(ms, k + 1)

\* C6: every printed line whose column count C is at least the width of its
\* left segment plus the separator is at most C cells wide, and starts with the
\* left segment and the separator unmodified.
C6_ComposedWithinColumns ==
    \A k \in 1..Len(printed) :
        LET r == printed[k]
        IN  r.term_w >= visible_width(r.left) + visible_width(SEPARATOR_CHAR)
                => /\ visible_width(r.line) <= r.term_w
                   /\ IsPrefix(r.left \o SEPARATOR_CHAR, r.line)

\* C7: every line is fitted to the terminal's column count at the time it is
\* drawn: the width allowed to its panel text is computed from the live count.
C7_FittedToLiveColumns ==
    Len(printed) >= 1 =>
        LET r == printed[Len(printed)]
        IN  r.allowed = allowed_for(r.left, drawn_cols)

\* C8: inside the loop a provider is invoked again only when at least one
\* second has passed since the previous refresh (and the provider of a heavy
\* field never).
C8_RefreshOnlyAfterInterval ==
    (pc = "gather" /\ gi >= 2) => now - refreshed_at >= 1000

\* C9: a provider that raises makes its field absent for that cycle and
\* nothing else: the list being built has one entry per field queried so far,
\* in table order, a completed cycle has one entry per field of the table with
\* every field queried in it, the raising fields absent and left out of the
\* panel lines, and this holds in every cycle, also after a cycle in which a
\* provider raised.
C9_FailureIsolated ==
    /\ pc \in {"gather0", "gather"} =>
          /\ Len(gather_out) = gi - 1
          /\ \A k \in 1..Len(gather_out) :
                /\ gather_out[k].name = MODULE_FUNCS[k]
                /\ (k \in raised => gather_out[k].none)
    /\ pc \in {"loop", "draw", "sleep"} =>
          /\ Len(mods) = Len(MODULE_FUNCS)
          /\ \A k \in 1..Len(mods) :
                /\ mods[k].name = MODULE_FUNCS[k]
                /\ (k \in raised => mods[k].none)
          /\ \A k \in 1..NumFields : calls[k] = calls[1]
    /\ pc \in {"draw", "sleep"} => Len(spec_lines) = CountPresent(mods, 1)

C9_Witness ==
    /\ pc = "draw"
    /\ raised_before
    /\ 1 \in raised
    /\ ~(2 \in raised)
    /\ ~mods[2].none
    /\ ~mods[NumFields].none
    /\ Len(spec_lines) = NumFields - 1

\* C11: a cancel request (Ctrl-C) delivered at any point after render_loop has
\* been entered stops the loop without an exception escaping render_loop: the
\* loop is never left through an uncaught KeyboardInterrupt.
C11_CancelNeverEscapes ==
    pc # "escaped"

\* C12: once the loop runs the frame index is within 0..count-1; it is
\* k mod count while tick k (0-based) refreshes and draws and (k + 1) mod count
\* once tick k has advanced it, and the rows tick k draws are those of frame
\* k mod count of the store.
C12_FrameIndexCycles ==
    /\ pc \in {"loop", "gather", "draw", "sleep", "stopped"} =>
          idx \in 0..(Len(frames) - 1)
    /\ pc \in {"loop", "gather", "draw"} => idx = ticks % Len(frames)
    /\ pc = "sleep" => idx = (ticks + 1) % Len(frames)
    /\ pc \in {"draw", "sleep"} =>
          LET frame == constrain(frames[(ticks % Len(frames)) + 1], box_h)
          IN  padded_left = [j \in 1..Len(frame) |-> pad_ansi(frame[j], box_w, align)]

C12_Witness ==
    /\ pc = "draw"
    /\ Len(frames) >= 2
    /\ ticks >= Len(frames)
    /\ idx = 0
    /\ row >= 1

\* the animation directory is missing or holds no frame_*.txt file
SourceEmptyOrUnreadable ==
    \/ ~anim_dir.exists
    \/ ~\E f \in anim_dir.files : is_file(anim_dir, f) /\ IsFrameName(f.name)

\* C13: when the animation directory is missing or holds no frame_*.txt file,
\* main never gets past loading: it is before the load or has reported the
\* error and returned, no frame is held, no provider was queried and no line
\* was printed by the loop.
C13_LoadFailureStartsNothing ==
    SourceEmptyOrUnreadable =>
        /\ pc \in {"main", "load_failed"}
        /\ frames = <<>>
        /\ gi = 0
        /\ \A f \in 1..NumFields : calls[f] = 0
        /\ printed = <<>>

C13_Witness ==
    /\ pc = "load_failed"
    /\ anim_dir.exists
    /\ anim_dir.files # {}

\* C14: the animation block of a tick has exactly box_h rows: row j is the
\* box-fitted row j of the frame while the frame has one, and box_w spaces
\* after its last row; rows of the frame beyond box_h are not drawn, the lines
\* printed start with these rows in order, and the stored frames are still
\* what was loaded.
C14_BlockHasBoxRows ==
    pc = "draw" =>
        LET frame == frames[idx + 1]
        IN  /\ Len(padded_left) = box_h
            /\ \A j \in 1..box_h :
                  padded_left[j] = (IF j <= Len(frame)
                                    THEN pad_ansi(frame[j], box_w, align)
                                    ELSE Spaces(box_w))
            /\ \A k \in 1..Len(printed) :
                  k <= box_h => printed[k].left = padded_left[k]
            /\ frames = load_frames_from_dir(anim_dir)

\* the third tick draws a frame of exactly box_h rows, after a tick that drew
\* a frame of fewer rows and a tick that drew a frame of more
C14_Witness ==
    /\ pc = "draw"
    /\ ticks = 2
    /\ idx = 2
    /\ Len(frames[1]) < box_h
    /\ Len(frames[2]) > box_h
    /\ Len(frames[3]) = box_h
    /\ Len(printed) >= box_h

\* C15: the lines of a tick are written top to bottom, line i (0-based) made
\* of animation row i (box_w spaces from row box_h on), the separator and
\* panel line i (empty from the panel's line count on) cut to the room left;
\* when the tick's drawing is over, exactly max(box_h, panel line count) lines
\* were written, all of them before the next tick writes any.
C15_TickWritesAllLines ==
    /\ pc \in {"draw", "sleep"} =>
          /\ Len(printed) = row
          /\ \A k \in 1..Len(printed) :
                LET r == printed[k]
                IN  /\ r.left = (IF k <= box_h THEN padded_left[k] ELSE Spaces(box_w))
                    /\ r.right = (IF k <= Len(spec_lines) THEN spec_lines[k] ELSE <<>>)
                    /\ r.line = r.left \o SEPARATOR_CHAR \o truncate_ansi(r.right, r.allowed)
    /\ (pc = "sleep" \/ (pc = "loop" /\ ticks >= 1)) =>
          Len(printed) = Max(box_h, Len(spec_lines))

C15_Witness ==
    /\ pc = "sleep"
    /\ ticks >= 1
    /\ Len(spec_lines) > box_h
    /\ Len(printed) = Len(spec_lines)
    /\ printed[Len(printed)].left = Spaces(box_w)
    /\ printed[Len(printed)].right # <<>>

\* the text of the entry called name in the animation directory
text_of(name) == read_text(anim_dir, name)

\* C16: after n >= 1 frames were written as frame_0.txt .. frame_{n-1}.txt into
\* an empty directory (the directory holds the n written regular files and
\* nothing else), load_frames_from_dir returns exactly n frames and its k-th frame
\* (0-based) is the rows of frame_k.txt.
C16_RoundTripKeepsOrder ==
    (/\ pc = "loaded"
     /\ gif # <<>>
     /\ Cardinality(anim_dir.files) = Len(gif)
     /\ \A f \in anim_dir.files : f.kind = "file") =>
        /\ Len(frames) = Len(gif)
        /\ \A k \in 1..Len(frames) :
              frames[k] = splitlines(text_of(frame_name(k - 1)))

\* C17: for a single character c that is no ESC, the width truncate_ansi
\* charges for c is visible_width(c), with and without the wcwidth library.
C17_WidthMeasuresAgree ==
    (Len(s) = 1 /\ s[1] # ESC) => ch_width(s[1]) = visible_width(s)

=============================================================================
